---- MODULE Spec2Model ----
(***************************************************************************)
(* Persistence layer of the Cruise_Logs data-entry applications            *)
(* (rec_form_JSON.py, dep_form_JSON.py, repair_form_JSON.py): the record   *)
(* writers with their transactions, the field resolver, the presence       *)
(* tests and the sub-document builders.                                    *)
(***************************************************************************)
EXTENDS Integers, Sequences, FiniteSets, TLC

(***************************************************************************)
(* Bounds of the model.                                                    *)
(***************************************************************************)
\* Largest row id a table may hold (inserts stop there).
MaxId == 2
\* Longest string entered into a text field of the builders.
MaxStrLen == 2
\* longest text typed into the clock-error field
MaxClockLen == 5
\* longest serial number text
MaxSerialLen == 4
\* longest text held by a JSON column
MaxJsonLen == 4

(***************************************************************************)
(* Python values.  Every value has the same shape so that any two can be   *)
(* compared: k is the type, s the characters of a str, n the number of an  *)
(* int or of a whole-valued float.                                         *)
(***************************************************************************)
None == [k |-> "none", s |-> <<>>, n |-> 0]
NaN == [k |-> "nan", s |-> <<>>, n |-> 0]
PyStr(chars) == [k |-> "str", s |-> chars, n |-> 0]
PyInt(num) == [k |-> "int", s |-> <<>>, n |-> num]
PyFloat(num) == [k |-> "float", s |-> <<>>, n |-> num]

\* bool(v): what `if value:` and `value and ...` test.
Truthy(v) ==
    CASE v.k = "none" -> FALSE
      [] v.k = "str" -> v.s # <<>>
      [] v.k = "int" -> v.n # 0
      [] v.k = "float" -> v.n # 0
      [] v.k = "bytes" -> v.s # <<>>
      [] v.k \in {"dict", "list"} -> v.n # 0
      [] OTHER -> TRUE

RECURSIVE LStrip(_)
LStrip(chars) ==
    IF chars # <<>> /\ Head(chars) = " " THEN LStrip(Tail(chars)) ELSE chars

RECURSIVE RStrip(_)
RStrip(chars) ==
    IF chars # <<>> /\ chars[Len(chars)] = " "
    THEN RStrip(SubSeq(chars, 1, Len(chars) - 1))
    ELSE chars

\* str.strip()
Strip(chars) == RStrip(LStrip(chars))

(***************************************************************************)
(* The three applications and their tables.  Each application is its own   *)
(* program and works on its own table; a row is a function from the        *)
(* table's columns to values, the id column holding an integer.            *)
(***************************************************************************)
Apps == {"rec", "dep", "repair"}

E == PyStr(<<>>)
A == PyStr(<<"A">>)
B == PyStr(<<"B">>)

\* Live column sets (PRAGMA table_info): the recovery table exists in a
\* generation that names the mooring column mooring_id (with or without the
\* site and cruise columns) and in one that names it mooringid.
Schemas(a) ==
    CASE a = "rec" -> {{"id", "mooring_id", "relfiredate", "site", "cruise"},
                       {"id", "mooring_id", "relfiredate"},
                       {"id", "mooringid", "relfiredate"}}
      [] a = "dep" -> {{"id", "mooringid", "deployment_info"}}
      [] OTHER -> {{"id", "mooring_id", "repair_date"}}

\* The flat input of a submit: the form fields that feed the modelled columns.
FormFields(a) ==
    CASE a = "rec" -> {"mooringid", "fire_date"}
      [] a = "dep" -> {"mooringid", "dep_date"}
      [] OTHER -> {"mooring_id", "repair_date"}

\* Text inputs give strings; the repair form turns an empty input into None.
FormVals(a) == IF a = "repair" THEN {None, A, B} ELSE {E, A, B}

\* The form field that carries the record's date.
DateField(a) ==
    CASE a = "rec" -> "fire_date"
      [] a = "dep" -> "dep_date"
      [] OTHER -> "repair_date"

\* The inputs drawn: three values of the mooring id, two of the date.
Forms(a) == {f \in [FormFields(a) -> FormVals(a)] : f[DateField(a)] # B}

\* Ids a caller may pass: None, 0, the ids of the table and one beyond.
CallerIds == {None} \cup {PyInt(i) : i \in 0..(MaxId + 1)}

VARIABLES
    app,                \* which application this process is
    available_columns,  \* live column set of the application's table
    table,              \* persisted rows of the application's table
    pc,                 \* position of the operation in flight
    op,                 \* the operation in flight: name, id, form_data
    db_data,            \* staged write-set: column -> value
    txn,                \* uncommitted table image of conn, or NoTxn
    result,             \* what the operation returned (or that it raised)
    shadow,             \* the table as it would be had the operation not run
    conns,              \* connections currently open
    readback,           \* rows read on the fresh connection after the commit
    arg,                \* input of a pure function under test
    out                 \* its output

vars == <<app, available_columns, table, pc, op, db_data, txn, result,
          shadow, conns, readback, arg, out>>

dbvars == <<app, available_columns, table, pc, op, db_data, txn, result,
            shadow, conns, readback>>

NoTxn == [open |-> FALSE, image |-> {}]
NoOp == [name |-> "none", id |-> None, form |-> <<>>, absent |-> FALSE]
NoData == <<>>
NoColumn == ""

Ids(t) == {r["id"] : r \in t}

(***************************************************************************)
(* The storage engine as the code uses it.  The id column is the table's   *)
(* INTEGER PRIMARY KEY.                                                    *)
(***************************************************************************)
\* The WHERE clause lost: every row is selected.
SelectByIdAll(t, id) == t

\* SELECT ... WHERE id = ?
SelectById(t, id) == {r \in t : r["id"] = id}

\* The UPDATE without its WHERE clause: every row is written.
SqlUpdateAll(t, data, id) ==
    {[c \in DOMAIN r |-> IF c \in DOMAIN data THEN data[c] ELSE r[c]] : r \in t}

\* UPDATE t SET col = ?, ... WHERE id = ?  (the new table image)
SqlUpdate(t, data, id) ==
    {IF r["id"] = id
     THEN [c \in DOMAIN r |-> IF c \in DOMAIN data THEN data[c] ELSE r[c]]
     ELSE r : r \in t}

\* The affected-row count taken for granted.
RowCountAssumed(t, id) == 1

\* cursor.rowcount of that UPDATE
RowCount(t, id) == Cardinality(SelectById(t, id))

\* cursor.lastrowid: the engine gives the new row the largest id + 1
LastRowId(t) ==
    IF t = {} THEN 1
    ELSE (CHOOSE m \in {i.n : i \in Ids(t)} : \A i \in Ids(t) : i.n <= m) + 1

\* INSERT INTO t (columns of data) VALUES (?...): the id is generated and the
\* columns not named are NULL
SqlInsert(t, data, cols) ==
    t \cup {[c \in cols |-> IF c = "id" THEN PyInt(LastRowId(t))
                            ELSE IF c \in DOMAIN data THEN data[c] ELSE None]}

\* DELETE FROM t WHERE id = ?
SqlDelete(t, id) == t \ SelectById(t, id)

(***************************************************************************)
(* Results handed back to the caller.                                      *)
(***************************************************************************)
NoResult == [status |-> "none", msg |-> "", id |-> None, date |-> None, mooring |-> None]
Fail(msg) == [status |-> "fail", msg |-> msg, id |-> None, date |-> None, mooring |-> None]
Raised(msg) == [status |-> "raised", msg |-> msg, id |-> None, date |-> None, mooring |-> None]
Ok(msg, id, date, mooring) ==
    [status |-> "ok", msg |-> msg, id |-> id, date |-> date, mooring |-> mooring]

\* The call of a writer: its arguments, and whether the id matched no row of
\* the table when the call was made.
Call(name, id, form, t) ==
    [name |-> name, id |-> id, form |-> form, absent |-> id \notin Ids(t)]

\* dict.get(key, default)
Get(d, key, default) == IF key \in DOMAIN d THEN d[key] ELSE default

\* {**d1, **d2}
Merge(d1, d2) ==
    [c \in (DOMAIN d1) \cup (DOMAIN d2) |-> IF c \in DOMAIN d2 THEN d2[c] ELSE d1[c]]

(***************************************************************************)
(* Field resolution and staging of the recovery writers.                   *)
(***************************************************************************)
basic_field_mappings ==
    [site |-> <<"site">>, mooringid |-> <<"mooring_id", "mooringid">>]

release_info_mappings == [fire_date |-> <<"relfiredate">>]

\* The resolver falling back to the first candidate when none is live.
ResolveDefaultFirst(candidates, available) ==
    LET hits == {i \in 1..Len(candidates) : candidates[i] \in available}
    IN IF hits = {} THEN candidates[1]
       ELSE candidates[CHOOSE i \in hits : \A j \in hits : i <= j]

\* for db_field in possible_db_fields: if db_field in available_columns: ... break
Resolve(candidates, available) ==
    LET hits == {i \in 1..Len(candidates) : candidates[i] \in available}
    IN IF hits = {} THEN NoColumn
       ELSE candidates[CHOOSE i \in hits : \A j \in hits : i <= j]

\* One mapping loop: value = form_data.get(field, ''); if value: stage it under
\* the resolved column.
StageMapped(mapping, form, available) ==
    LET staged == {f \in DOMAIN mapping :
                      /\ Truthy(Get(form, f, E))
                      /\ Resolve(mapping[f], available) # NoColumn}
        cols == {Resolve(mapping[f], available) : f \in staged}
    IN [c \in cols |->
          Get(form, CHOOSE f \in staged : Resolve(mapping[f], available) = c, E)]

\* db_data of update_recovery_data and save_recovery_data
all_mappings == Merge(basic_field_mappings, release_info_mappings)

RecDbData(form, available) ==
    Merge(StageMapped(basic_field_mappings, form, available),
          StageMapped(release_info_mappings, form, available))

\* date_col: the first date column that exists, 'id' as the fallback
DateCol(available) ==
    LET c == Resolve(<<"release_fire_date", "relfiredate", "rec_date",
                       "recovery_date", "date">>, available)
    IN IF c = NoColumn THEN "id" ELSE c

(***************************************************************************)
(* update_recovery_data, one action per database call.  err is the call    *)
(* raising a database exception (locked database, I/O error).              *)
(***************************************************************************)
\* return on a path that ends in `finally: conn.close()`: what conn had
\* not committed is discarded, whether or not rollback() was called first
Return(res) ==
    /\ result' = res
    /\ pc' = "done"
    /\ txn' = NoTxn
    /\ conns' = {}

\* call, check_database_table, build db_data, the early returns before the
\* first statement on conn
update_recovery_data_begin(id, form, err) ==
    /\ pc = "idle"
    /\ app = "rec"
    /\ op' = Call("update_recovery_data", id, form, table)
    /\ shadow' = table
    /\ LET d == RecDbData(form, available_columns)
       IN IF err
          THEN Return(Fail("table_not_found")) /\ db_data' = NoData
          ELSE IF DOMAIN d = {}
          THEN Return(Fail("no_matching_columns")) /\ db_data' = NoData
          ELSE IF id = None
          THEN Return(Fail("invalid_id")) /\ db_data' = NoData
          ELSE /\ db_data' = d
               /\ pc' = "select"
               /\ conns' = {"conn"}
               /\ UNCHANGED <<txn, result>>
    /\ UNCHANGED <<app, available_columns, table, readback, arg, out>>

\* SELECT id, {date_col}, mooring_id ... WHERE id = ?  and the not-found return
update_recovery_data_select(err) ==
    /\ pc = "select"
    /\ op.name = "update_recovery_data"
    /\ IF err \/ "mooring_id" \notin available_columns
       THEN Return(Fail("database_error"))
       ELSE IF SelectById(table, op.id) = {}
       THEN Return(Fail("not_found"))
       ELSE pc' = "execute" /\ UNCHANGED <<txn, result, conns>>
    /\ UNCHANGED <<app, available_columns, table, op, db_data, shadow, readback, arg, out>>

\* cursor.execute(UPDATE ...).rowcount and the two rowcount returns
update_recovery_data_execute(err) ==
    /\ pc = "execute"
    /\ op.name = "update_recovery_data"
    /\ IF err
       THEN Return(Fail("update_failed"))
       ELSE IF RowCount(table, op.id) = 0
       THEN Return(Fail("no_rows_updated"))
       ELSE IF RowCount(table, op.id) > 1
       THEN Return(Fail("multiple_rows"))
       ELSE /\ txn' = [open |-> TRUE, image |-> SqlUpdate(table, db_data, op.id)]
            /\ pc' = "commit"
            /\ UNCHANGED <<result, conns>>
    /\ UNCHANGED <<app, available_columns, table, op, db_data, shadow, readback, arg, out>>

\* conn.commit(), still inside the inner try
update_recovery_data_commit(err) ==
    /\ pc = "commit"
    /\ op.name = "update_recovery_data"
    /\ IF err
       THEN Return(Fail("update_failed")) /\ UNCHANGED table
       ELSE /\ table' = txn.image
            /\ txn' = NoTxn
            /\ pc' = "verify"
            /\ UNCHANGED <<result, conns>>
    /\ UNCHANGED <<app, available_columns, op, db_data, shadow, readback, arg, out>>

\* SELECT id, mooring_id, {date_col}, site, cruise: the columns it names
verify_columns(date_col) == {"id", "mooring_id", date_col, "site", "cruise"}

\* the SELECT on the same connection, then conn.close()
update_recovery_data_verify(err) ==
    /\ pc = "verify"
    /\ op.name = "update_recovery_data"
    /\ IF err \/ ~(verify_columns(DateCol(available_columns)) \subseteq available_columns)
       THEN Return(Fail("database_error"))
       ELSE /\ pc' = "verify_fresh"
            /\ conns' = {}
            /\ UNCHANGED <<txn, result>>
    /\ UNCHANGED <<app, available_columns, table, op, db_data, shadow, readback, arg, out>>

\* verify_conn = sqlite3.connect(DB_PATH), the SELECT on it and the two
\* returns; an exception here reaches `except: conn.rollback()` with conn
\* already closed, which raises out of the function and leaves verify_conn open
update_recovery_data_verify_fresh(err) ==
    /\ pc = "verify_fresh"
    /\ op.name = "update_recovery_data"
    /\ LET rows == SelectById(table, op.id)
       IN IF err
          THEN /\ result' = Raised("closed_database")
               /\ conns' = {"verify_conn"}
               /\ readback' = {}
          ELSE IF rows # {}
          THEN /\ readback' = rows
               /\ conns' = {}
               /\ result' = LET r == CHOOSE r \in rows : TRUE
                            IN Ok("updated", op.id, r[DateCol(available_columns)],
                                  r["mooring_id"])
          ELSE /\ readback' = {}
               /\ conns' = {}
               /\ result' = Fail("could_not_verify")
    /\ pc' = "done"
    /\ UNCHANGED <<app, available_columns, table, op, db_data, txn, shadow, arg, out>>

(***************************************************************************)
(* save_recovery_data                                                      *)
(***************************************************************************)
save_recovery_data_begin(form, err) ==
    /\ pc = "idle"
    /\ app = "rec"
    /\ LastRowId(table) <= MaxId
    /\ op' = Call("save_recovery_data", None, form, table)
    /\ shadow' = table
    /\ LET d == RecDbData(form, available_columns)
       IN IF err
          THEN Return(Fail("table_not_found")) /\ db_data' = NoData
          ELSE IF DOMAIN d = {}
          THEN Return(Fail("no_matching_columns")) /\ db_data' = NoData
          ELSE /\ db_data' = d
               /\ pc' = "execute"
               /\ conns' = {"conn"}
               /\ UNCHANGED <<txn, result>>
    /\ UNCHANGED <<app, available_columns, table, readback, arg, out>>

\* cursor.execute(INSERT ...)
save_recovery_data_execute(err) ==
    /\ pc = "execute"
    /\ op.name = "save_recovery_data"
    /\ IF err
       THEN Return(Fail("database_error"))
       ELSE /\ txn' = [open |-> TRUE,
                       image |-> SqlInsert(table, db_data, available_columns)]
            /\ pc' = "commit"
            /\ UNCHANGED <<result, conns>>
    /\ UNCHANGED <<app, available_columns, table, op, db_data, shadow, readback, arg, out>>

\* conn.commit(); return True, cursor.lastrowid
save_recovery_data_commit(err) ==
    /\ pc = "commit"
    /\ op.name = "save_recovery_data"
    /\ IF err
       THEN Return(Fail("database_error")) /\ UNCHANGED table
       ELSE /\ table' = txn.image
            /\ Return(Ok("saved", PyInt(LastRowId(table)), None, None))
    /\ UNCHANGED <<app, available_columns, op, db_data, shadow, readback, arg, out>>

(***************************************************************************)
(* update_deployment_data and save_deployment_data.  The deployment_info   *)
(* document is reduced to its dep_date member.                             *)
(***************************************************************************)
\* values of the UPDATE / INSERT: every column is written, '' when the form
\* has no value
DepDbData(form) ==
    [mooringid |-> Get(form, "mooringid", E),
     deployment_info |-> Get(form, "dep_date", E)]

update_deployment_data_begin(id, form) ==
    /\ pc = "idle"
    /\ app = "dep"
    /\ op' = Call("update_deployment_data", id, form, table)
    /\ shadow' = table
    /\ db_data' = DepDbData(form)
    /\ pc' = "select"
    /\ conns' = {"conn"}
    /\ UNCHANGED <<app, available_columns, table, txn, result, readback, arg, out>>

\* SELECT id FROM deployments_normalized WHERE id = ?
update_deployment_data_select(err) ==
    /\ pc = "select"
    /\ op.name = "update_deployment_data"
    /\ IF err
       THEN Return(Fail("database_error"))
       ELSE IF SelectById(table, op.id) = {}
       THEN Return(Fail("not_found"))
       ELSE pc' = "execute" /\ UNCHANGED <<txn, result, conns>>
    /\ UNCHANGED <<app, available_columns, table, op, db_data, shadow, readback, arg, out>>

update_deployment_data_execute(err) ==
    /\ pc = "execute"
    /\ op.name = "update_deployment_data"
    /\ IF err
       THEN Return(Fail("database_error"))
       ELSE IF RowCount(table, op.id) = 0
       THEN Return(Fail("no_rows_updated"))
       ELSE IF RowCount(table, op.id) > 1
       THEN Return(Fail("multiple_rows"))
       ELSE /\ txn' = [open |-> TRUE, image |-> SqlUpdate(table, db_data, op.id)]
            /\ pc' = "commit"
            /\ UNCHANGED <<result, conns>>
    /\ UNCHANGED <<app, available_columns, table, op, db_data, shadow, readback, arg, out>>

\* conn.commit(); return True, {'id', 'dep_date', 'mooringid'} taken from the
\* form input
update_deployment_data_commit(err) ==
    /\ pc = "commit"
    /\ op.name = "update_deployment_data"
    /\ IF err
       THEN Return(Fail("database_error")) /\ UNCHANGED table
       ELSE /\ table' = txn.image
            /\ Return(Ok("updated", op.id, Get(op.form, "dep_date", E),
                         Get(op.form, "mooringid", None)))
    /\ UNCHANGED <<app, available_columns, op, db_data, shadow, readback, arg, out>>

save_deployment_data_begin(form) ==
    /\ pc = "idle"
    /\ app = "dep"
    /\ LastRowId(table) <= MaxId
    /\ op' = Call("save_deployment_data", None, form, table)
    /\ shadow' = table
    /\ db_data' = DepDbData(form)
    /\ pc' = "execute"
    /\ conns' = {"conn"}
    /\ UNCHANGED <<app, available_columns, table, txn, result, readback, arg, out>>

save_deployment_data_execute(err) ==
    /\ pc = "execute"
    /\ op.name = "save_deployment_data"
    /\ IF err
       THEN Return(Fail("database_error"))
       ELSE /\ txn' = [open |-> TRUE,
                       image |-> SqlInsert(table, db_data, available_columns)]
            /\ pc' = "commit"
            /\ UNCHANGED <<result, conns>>
    /\ UNCHANGED <<app, available_columns, table, op, db_data, shadow, readback, arg, out>>

save_deployment_data_commit(err) ==
    /\ pc = "commit"
    /\ op.name = "save_deployment_data"
    /\ IF err
       THEN Return(Fail("database_error")) /\ UNCHANGED table
       ELSE /\ table' = txn.image
            /\ Return(Ok("saved", PyInt(LastRowId(table)), None, None))
    /\ UNCHANGED <<app, available_columns, op, db_data, shadow, readback, arg, out>>

(***************************************************************************)
(* save_repair and delete_repair                                           *)
(***************************************************************************)
\* `if is_update and record_id:` chooses the UPDATE, anything else the INSERT
SaveRepairUpdates(is_update, record_id) == is_update /\ Truthy(record_id)

save_repair_begin(repair_data, is_update, record_id) ==
    /\ pc = "idle"
    /\ app = "repair"
    /\ SaveRepairUpdates(is_update, record_id) \/ LastRowId(table) <= MaxId
    /\ op' = Call(IF is_update THEN "save_repair_update" ELSE "save_repair_insert", record_id, repair_data, table)
    /\ shadow' = table
    /\ db_data' = repair_data
    /\ pc' = IF SaveRepairUpdates(is_update, record_id) THEN "execute_update"
             ELSE "execute_insert"
    /\ conns' = {"conn"}
    /\ UNCHANGED <<app, available_columns, table, txn, result, readback, arg, out>>

\* cursor.execute(UPDATE ... WHERE id = ?): the rowcount is not read
save_repair_execute_update(err) ==
    /\ pc = "execute_update"
    /\ IF err
       THEN Return(Fail("error_saving"))
       ELSE /\ txn' = [open |-> TRUE, image |-> SqlUpdate(table, db_data, op.id)]
            /\ pc' = "commit"
            /\ UNCHANGED <<result, conns>>
    /\ UNCHANGED <<app, available_columns, table, op, db_data, shadow, readback, arg, out>>

save_repair_execute_insert(err) ==
    /\ pc = "execute_insert"
    /\ IF err
       THEN Return(Fail("error_saving"))
       ELSE /\ txn' = [open |-> TRUE,
                       image |-> SqlInsert(table, db_data, available_columns)]
            /\ pc' = "commit"
            /\ UNCHANGED <<result, conns>>
    /\ UNCHANGED <<app, available_columns, table, op, db_data, shadow, readback, arg, out>>

\* conn.commit(); return True, "Repair record updated/saved successfully!"
save_repair_commit(err) ==
    /\ pc = "commit"
    /\ op.name \in {"save_repair_update", "save_repair_insert"}
    /\ IF err
       THEN Return(Fail("error_saving")) /\ UNCHANGED table
       ELSE /\ table' = txn.image
            /\ Return(Ok("success_message", None, None, None))
    /\ UNCHANGED <<app, available_columns, op, db_data, shadow, readback, arg, out>>

\* DELETE FROM repair_normalized WHERE id = ?; commit
delete_repair(record_id, err) ==
    /\ pc = "idle"
    /\ app = "repair"
    /\ op' = Call("delete_repair", record_id, <<>>, table)
    /\ shadow' = table
    /\ IF err
       THEN Return(Fail("error_deleting")) /\ UNCHANGED table
       ELSE table' = SqlDelete(table, record_id) /\ Return(Ok("deleted", None, None, None))
    /\ UNCHANGED <<app, available_columns, db_data, readback, arg, out>>

(***************************************************************************)
(* The environment: another session deletes a row.  A pending write of     *)
(* conn holds the database's write lock, so this waits for it.             *)
(***************************************************************************)
OtherSessionDelete(id) ==
    /\ ~txn.open
    /\ SelectById(table, id) # {}
    /\ table' = SqlDelete(table, id)
    /\ shadow' = SqlDelete(shadow, id)
    /\ UNCHANGED <<app, available_columns, pc, op, db_data, txn, result, conns,
                   readback, arg, out>>

\* the caller shows the result (st.success / st.error) and waits for the
\* next submit
ShowResult ==
    /\ pc = "done"
    /\ pc' = "idle"
    /\ op' = NoOp
    /\ db_data' = NoData
    /\ result' = NoResult
    /\ readback' = {}
    /\ conns' = {}
    /\ shadow' = table
    /\ UNCHANGED <<app, available_columns, table, txn, arg, out>>

NoArg == <<>>

Init ==
    /\ app \in Apps
    /\ available_columns \in Schemas(app)
    /\ table = {}
    /\ pc = "idle"
    /\ op = NoOp
    /\ db_data = NoData
    /\ txn = NoTxn
    /\ result = NoResult
    /\ shadow = {}
    /\ conns = {}
    /\ readback = {}
    /\ arg = NoArg
    /\ out = NoArg

Next ==
    \/ \E id \in CallerIds, form \in Forms("rec"), err \in BOOLEAN :
          update_recovery_data_begin(id, form, err)
    \/ \E err \in BOOLEAN : update_recovery_data_select(err)
    \/ \E err \in BOOLEAN : update_recovery_data_execute(err)
    \/ \E err \in BOOLEAN : update_recovery_data_commit(err)
    \/ \E err \in BOOLEAN : update_recovery_data_verify(err)
    \/ \E err \in BOOLEAN : update_recovery_data_verify_fresh(err)
    \/ \E form \in Forms("rec"), err \in BOOLEAN : save_recovery_data_begin(form, err)
    \/ \E err \in BOOLEAN : save_recovery_data_execute(err)
    \/ \E err \in BOOLEAN : save_recovery_data_commit(err)
    \/ \E id \in CallerIds, form \in Forms("dep") : update_deployment_data_begin(id, form)
    \/ \E err \in BOOLEAN : update_deployment_data_select(err)
    \/ \E err \in BOOLEAN : update_deployment_data_execute(err)
    \/ \E err \in BOOLEAN : update_deployment_data_commit(err)
    \/ \E form \in Forms("dep") : save_deployment_data_begin(form)
    \/ \E err \in BOOLEAN : save_deployment_data_execute(err)
    \/ \E err \in BOOLEAN : save_deployment_data_commit(err)
    \/ \E data \in Forms("repair"), upd \in BOOLEAN, id \in CallerIds :
          save_repair_begin(data, upd, id)
    \/ \E err \in BOOLEAN : save_repair_execute_update(err)
    \/ \E err \in BOOLEAN : save_repair_execute_insert(err)
    \/ \E err \in BOOLEAN : save_repair_commit(err)
    \/ \E id \in CallerIds, err \in BOOLEAN : delete_repair(id, err)
    \/ \E id \in CallerIds : OtherSessionDelete(id)
    \/ ShowResult

Spec == Init /\ [][Next]_vars

(***************************************************************************)
(* The builders of the submit handlers, applied to drawn inputs.           *)
(***************************************************************************)
\* Text a user can type: the strings over a blank and a digit.
Texts == UNION {[1..n -> {" ", "0"}] : n \in 0..MaxStrLen}

FalseText == <<"f", "a", "l", "s", "e">>

\* Raw values a caller can hand to a writer.
RawValues ==
    {None, NaN, PyInt(0), PyInt(7), PyFloat(0), PyFloat(1), PyStr(FalseText)}
        \cup {PyStr(t) : t \in Texts}

\* value.strip(): only a str has the method
AttributeError == [k |-> "AttributeError", s |-> <<>>, n |-> 0]
PyStrip(v) == IF v.k = "str" THEN PyStr(Strip(v.s)) ELSE AttributeError

\* f"{a}_{b}_{c}": the key of a flat form field
Key(a, b, c) == <<a, b, c>>

(* ---- repair form: lost_equipment and replacement_equipment ---- *)
EquipKinds ==
    {"tube", "ptt", "atrh", "sst", "wind", "rain", "swrad", "lwrad", "baro", "seacat"}

\* `if x_old_sn and x_old_sn.strip():` with a truthiness test only
SnGivenTruthy(sn) == Truthy(sn)

\* `if x_old_sn and x_old_sn.strip():`
SnGiven(sn) == Truthy(sn) /\ Truthy(PyStrip(sn))

\* lost_equipment_dict: inputs[kind] holds the kind's old S/N, condition and
\* new S/N widgets
lost_equipment_dict(inputs) ==
    [kind \in {k \in EquipKinds : SnGiven(inputs[k].old_sn)} |->
        [sn |-> PyStrip(inputs[kind].old_sn),
         lost |-> IF Truthy(inputs[kind].condition)
                  THEN PyStrip(inputs[kind].condition) ELSE None]]

replacement_equipment_dict(inputs) ==
    [kind \in {k \in EquipKinds : SnGiven(inputs[k].new_sn)} |->
        [sn |-> PyStrip(inputs[kind].new_sn)]]

(* ---- deployment form: the sub-documents of both writers ---- *)
MetKinds == {"atrh", "rain", "sw_radiation", "lw_radiation", "barometer", "wind"}
ReleaseFields == {"type", "sn", "int_freq", "reply_freq", "release", "disable", "enable"}
SpoolNumbers == {"1", "2", "3", "4", "5", "6", "7", "8", "9", "10"}

met_sensors(form) ==
    [kind \in MetKinds |->
        [type |-> Get(form, Key("met", kind, "type"), E),
         serial |-> Get(form, Key("met", kind, "serial"), E)]]

nylon_spools(form) ==
    [i \in {j \in SpoolNumbers : Truthy(Get(form, Key("spool", j, "sn"), E))} |->
        [sn |-> Get(form, Key("spool", i, "sn"), E),
         length |-> Get(form, Key("spool", i, "length"), E),
         ev50 |-> Get(form, Key("spool", i, "ev50"), E)]]

acoustic_releases(form) ==
    [r \in {q \in {"1", "2"} : Truthy(Get(form, Key("release", q, "sn"), None))} |->
        [fld \in ReleaseFields |-> Get(form, Key("release", r, fld), E)]]

SensorKept(sensor) ==
    \E key \in {"type", "sn", "depth"} : Truthy(Get(sensor, key, E))

RECURSIVE subsurface_sensors(_)
subsurface_sensors(sensors) ==
    IF sensors = <<>> THEN <<>>
    ELSE LET sensor == Head(sensors)
             rest == subsurface_sensors(Tail(sensors))
         IN IF SensorKept(sensor)
            THEN <<[fld \in {"depth", "type", "address", "sn", "time_in", "comments"} |->
                      Get(sensor, fld, E)]>> \o rest
            ELSE rest

(* ---- the presence test of each writer, on one raw value ---- *)
\* "present", "absent", or "raised" when the test itself raises
Treats(site, v) ==
    CASE site = "rec" ->
            IF "site" \in DOMAIN RecDbData([site |-> v], {"id", "site"})
            THEN "present" ELSE "absent"
      [] site = "dep" ->
            IF "1" \in DOMAIN nylon_spools((Key("spool", "1", "sn") :> v))
            THEN "present" ELSE "absent"
      [] OTHER ->
            IF Truthy(v) /\ PyStrip(v) = AttributeError THEN "raised"
            ELSE IF SnGiven(v) THEN "present" ELSE "absent"

\* The presence rule: not None, not NaN and, trimmed, not the empty string.
Present(v) == v.k \notin {"none", "nan"} /\ (v.k = "str" => Strip(v.s) # <<>>)

(* ---- decimal text: int(s), float(s) and str(n) ---- *)
Digits == <<"0", "1", "2", "3", "4", "5", "6", "7", "8", "9">>

\* chars is a non-empty run of decimal digits
IsDigits(chars) ==
    chars # <<>> /\ \A i \in 1..Len(chars) : \E d \in 1..10 : Digits[d] = chars[i]

RECURSIVE ParseNat(_)
ParseNat(chars) ==
    IF chars = <<>> THEN 0
    ELSE 10 * ParseNat(SubSeq(chars, 1, Len(chars) - 1))
            + (CHOOSE d \in 0..9 : Digits[d + 1] = chars[Len(chars)])

RECURSIVE NatToStr(_)
NatToStr(num) ==
    IF num < 10 THEN <<Digits[num + 1]>>
    ELSE NatToStr(num \div 10) \o <<Digits[(num % 10) + 1]>>

ValueError == [k |-> "ValueError", s |-> <<>>, n |-> 0]

\* int(chars): an optional sign and a run of digits; else ValueError
ToInt(chars) ==
    LET t == Strip(chars)
    IN IF IsDigits(t) THEN PyInt(ParseNat(t))
       ELSE IF t # <<>> /\ Head(t) \in {"-", "+"} /\ IsDigits(Tail(t))
       THEN PyInt(IF Head(t) = "-" THEN 0 - ParseNat(Tail(t)) ELSE ParseNat(Tail(t)))
       ELSE ValueError

\* float(v) of a value: a number, or a str that denotes a whole number; else
\* ValueError
ToFloat(v) ==
    CASE v.k \in {"int", "float"} -> PyFloat(v.n)
      [] v.k = "str" /\ ToInt(v.s) # ValueError -> PyFloat(ToInt(v.s).n)
      [] OTHER -> ValueError

\* str(num) of an int
IntToStr(num) == IF num < 0 THEN <<"-">> \o NatToStr(0 - num) ELSE NatToStr(num)

\* f"{num:02d}" and f"{num:03d}": zero-padded to width
Pad(num, width) ==
    LET t == NatToStr(num)
    IN [i \in 1..(IF Len(t) < width THEN width - Len(t) ELSE 0) |-> "0"] \o t

(* ---- repair form: migrate_old_columns ---- *)
\* json.dumps(doc): the text of a JSON object, kept as the object it denotes
Json(doc) == [k |-> "json", s |-> <<>>, n |-> 0, doc |-> doc]

met_ship_cols ==
    <<"ship_date", "ship_time", "ship_wind_dir", "ship_wind_spd",
      "ship_air_temp", "ship_sst", "ship_ssc", "ship_rh">>

met_buoy_cols ==
    <<"buoy_date", "buoy_time", "buoy_wind_dir", "buoy_wind_spd",
      "buoy_air_temp", "buoy_sst", "buoy_ssc", "buoy_rh">>

\* keys of the JSON document, in the order of the deprecated columns
MetKeys == <<"date", "time", "wind_dir", "wind_spd", "air_temp", "sst", "ssc", "rh">>

Range(seq) == {seq[i] : i \in 1..Len(seq)}

\* The move of a column: SET new = old, old = NULL on every row.
MigrateMove(t, old, new) ==
    {[r EXCEPT ![new] = r[old], ![old] = None] : r \in t}

\* The copy without its guard: SET new = old on every row.
MigrateCopyAll(t, old, new) ==
    {[r EXCEPT ![new] = r[old]] : r \in t}

\* UPDATE ... SET new = old WHERE new IS NULL AND old IS NOT NULL
MigrateCopy(t, old, new) ==
    {IF r[new] = None /\ r[old] # None THEN [r EXCEPT ![new] = r[old]] ELSE r : r \in t}

\* str(v) of a column value
PyText(v) ==
    CASE v.k = "str" -> v.s
      [] v.k = "int" -> IntToStr(v.n)
      [] v.k = "float" -> IntToStr(v.n) \o <<".", "0">>
      [] OTHER -> <<"N", "o", "n", "e">>

\* a key that is left out of the document
NoEntry == [k |-> "missing", s |-> <<>>, n |-> 0]

\* the value stored under MetKeys[i] for the row's i-th deprecated column, or
\* NoEntry when the key is left out
MetEntry(i, v) ==
    CASE i = 1 -> IF Truthy(v) THEN PyStr(PyText(v) \o <<"T", "0", "0", ":", "0", "0", ":", "0", "0">>) ELSE NoEntry
      [] i = 2 -> IF Truthy(v)
                  THEN IF Len(PyText(v)) = 5 THEN PyStr(PyText(v) \o <<":", "0", "0">>)
                       ELSE PyStr(PyText(v))
                  ELSE NoEntry
      [] OTHER -> IF v # None /\ ToFloat(v) # ValueError THEN ToFloat(v) ELSE NoEntry

\* met_ship_data / met_buoy_data of one selected record
MetData(r, cols) ==
    LET kept == {i \in 1..Len(cols) : MetEntry(i, r[cols[i]]) # NoEntry}
    IN [key \in {MetKeys[i] : i \in kept} |->
           MetEntry(CHOOSE i \in kept : MetKeys[i] = key,
                    r[cols[CHOOSE i \in kept : MetKeys[i] = key]])]

\* SELECT ... WHERE new IS NULL AND (some old IS NOT NULL), then per record
\* UPDATE ... SET new = json.dumps(data) WHERE id = ? `if data`
MigrateMet(t, cols, new) ==
    {IF /\ r[new] = None
        /\ \E c \in Range(cols) : r[c] # None
        /\ DOMAIN MetData(r, cols) # {}
     THEN [r EXCEPT ![new] = Json(MetData(r, cols))]
     ELSE r : r \in t}

migrate_old_columns(t, columns) ==
    LET t1 == IF {"fishing_vandalism", "repair_fishing_vandalism"} \subseteq columns
              THEN MigrateCopy(t, "fishing_vandalism", "repair_fishing_vandalism")
              ELSE t
        t2 == IF {"buoy_condition", "buoy_details"} \subseteq columns
              THEN MigrateCopy(t1, "buoy_condition", "buoy_details")
              ELSE t1
        t3 == IF Range(met_ship_cols) \cup {"met_ship"} \subseteq columns
              THEN MigrateMet(t2, met_ship_cols, "met_ship")
              ELSE t2
    IN IF Range(met_buoy_cols) \cup {"met_buoy"} \subseteq columns
       THEN MigrateMet(t3, met_buoy_cols, "met_buoy")
       ELSE t3

\* the loader's defaults of the eight Met Obs widgets from a met_ship or
\* met_buoy column value: the document is read under the keys the submit
\* writes ('Date', 'Time', 'Wind Dir', ...), 'ssc' being accepted for 'SSC';
\* the date is shown as the text before 'T' (strptime taken to succeed), the
\* time cut to HH:MM, a number as str(number); a widget without a value is ''
default_met(v) ==
    LET doc == IF v.k = "json" THEN v.doc ELSE <<>>
        keys == <<"Date", "Time", "Wind Dir", "Wind Spd", "Air Temp", "SST", "SSC", "RH">>
        get(key) == IF key \in DOMAIN doc THEN doc[key] ELSE None
        text(i) == PyText(get(keys[i]))
        ssc_value == IF "SSC" \in DOMAIN doc THEN doc["SSC"] ELSE get("ssc")
    IN [i \in 1..8 |->
          IF DOMAIN doc = {} THEN E
          ELSE CASE i = 1 ->
                      IF Truthy(get("Date"))
                      THEN PyStr(SubSeq(text(1), 1,
                              (CHOOSE n \in 1..(Len(text(1)) + 1) :
                                  /\ n = Len(text(1)) + 1 \/ text(1)[n] = "T"
                                  /\ \A m \in 1..(n - 1) : text(1)[m] # "T") - 1))
                      ELSE E
                 [] i = 2 ->
                      IF Truthy(get("Time"))
                      THEN PyStr(SubSeq(text(2), 1,
                                        IF Len(text(2)) < 5 THEN Len(text(2)) ELSE 5))
                      ELSE E
                 [] i = 7 ->
                      IF ssc_value \notin {None, E} THEN PyStr(PyText(ssc_value)) ELSE E
                 [] OTHER ->
                      IF get(keys[i]) # None THEN PyStr(text(i)) ELSE E]

(* ---- repair form: the columns added at start ---- *)
\* ALTER TABLE ADD COLUMN issued for every declared column, live or not.
ensure_columns_add_all(existing_columns) ==
    LET declared == <<"buoy_details", "repair_fishing_vandalism", "met_ship", "met_buoy">>
        attempted == 1..Len(declared)
        failing == {i \in attempted : declared[i] \in existing_columns}
        reached == {i \in attempted : \A j \in failing : i <= j}
    IN [alters |-> {declared[i] : i \in reached},
        columns |-> existing_columns \cup {declared[i] : i \in reached},
        ok |-> failing = {}]

\* ensure_columns_exist: PRAGMA table_info, then one ALTER TABLE ADD COLUMN
\* per declared column that is not in existing_columns, in the order of the
\* code; the engine rejects the ALTER of a live column (duplicate column
\* name), which ends the function with False.  Of the declared columns those
\* the migration reads are kept.
ensure_columns_exist(existing_columns) ==
    LET declared == <<"buoy_details", "repair_fishing_vandalism", "met_ship", "met_buoy">>
        attempted == {i \in 1..Len(declared) : declared[i] \notin existing_columns}
        failing == {i \in attempted : declared[i] \in existing_columns}
        reached == {i \in attempted : \A j \in failing : i <= j}
    IN [alters |-> {declared[i] : i \in reached},
        columns |-> existing_columns \cup {declared[i] : i \in reached},
        ok |-> failing = {}]

(* ---- recovery form: clock error as M:SS text and as MMSS integer ---- *)
\* The formatter reading the stored integer as total seconds.
format_clock_error_total_seconds(mmss_value) ==
    IF mmss_value \in {None, E} THEN E
    ELSE IF ToFloat(mmss_value) = ValueError THEN mmss_value
    ELSE LET value == ToFloat(mmss_value).n
             magnitude == IF value < 0 THEN 0 - value ELSE value
         IN PyStr((IF value < 0 THEN <<"-">> ELSE <<>>)
                  \o NatToStr(magnitude \div 60) \o <<":">> \o Pad(magnitude % 60, 2))

format_clock_error_to_mmss(mmss_value) ==
    IF mmss_value \in {None, E} THEN E
    ELSE IF ToFloat(mmss_value) = ValueError THEN mmss_value
    ELSE LET value == ToFloat(mmss_value).n
             magnitude == IF value < 0 THEN 0 - value ELSE value
             minutes == IF magnitude < 100 THEN 0 ELSE magnitude \div 100
             secs == IF magnitude < 100 THEN magnitude ELSE magnitude % 100
         IN PyStr((IF value < 0 THEN <<"-">> ELSE <<>>)
                  \o NatToStr(minutes) \o <<":">> \o Pad(secs, 2))

parse_clock_error_from_mmss(mmss) ==
    IF mmss \in {None, E} THEN E
    ELSE LET mmss_str == PyText(mmss)
             colons == {i \in 1..Len(mmss_str) : mmss_str[i] = ":"}
             negative == mmss_str # <<>> /\ Head(mmss_str) = "-"
             body == IF negative THEN Tail(mmss_str) ELSE mmss_str
             at == CHOOSE i \in 1..Len(body) : body[i] = ":"
             minutes == ToInt(SubSeq(body, 1, at - 1))
             seconds == ToInt(SubSeq(body, at + 1, Len(body)))
         IN IF colons = {} /\ ToFloat(mmss) # ValueError
            THEN PyStr(IntToStr(ToFloat(mmss).n))
            ELSE IF Cardinality(colons) # 1 \/ minutes = ValueError \/ seconds = ValueError
            THEN PyStr(body)
            ELSE PyStr(IntToStr((IF negative THEN 0 - 1 ELSE 1)
                                * (minutes.n * 100 + seconds.n)))

\* datetime.strptime(f"2000-01-01 {t}", "%Y-%m-%d %H:%M:%S"): the time of day
\* in seconds, or ValueError
SecondsOfDay(chars) ==
    LET colons == {i \in 1..Len(chars) : chars[i] = ":"}
        c1 == CHOOSE i \in colons : \A j \in colons : i <= j
        c2 == CHOOSE i \in colons : \A j \in colons : i >= j
        hh == SubSeq(chars, 1, c1 - 1)
        mm == SubSeq(chars, c1 + 1, c2 - 1)
        ss == SubSeq(chars, c2 + 1, Len(chars))
    IN IF /\ Cardinality(colons) = 2
          /\ \A part \in {hh, mm, ss} : IsDigits(part) /\ Len(part) <= 2
          /\ ParseNat(hh) < 24 /\ ParseNat(mm) < 60 /\ ParseNat(ss) < 60
       THEN PyInt(ParseNat(hh) * 3600 + ParseNat(mm) * 60 + ParseNat(ss))
       ELSE ValueError

NameError == [k |-> "NameError", s |-> <<>>, n |-> 0]

\* `if not actual_time or not inst_time:` names inst_time, which is neither a
\* parameter (that is instrument_time) nor a global: the test raises NameError
\* as soon as actual_time is truthy, outside the function's try
calculate_clock_error(actual_time, instrument_time) ==
    IF ~Truthy(actual_time) THEN E ELSE NameError

(* ---- recovery form: wind direction in nautical format ---- *)
\* The formatter without the zero padding.
format_wind_direction_plain(wind_dir) ==
    IF wind_dir \in {None, E} THEN E
    ELSE IF ToFloat(wind_dir) = ValueError
    THEN (IF Truthy(wind_dir) THEN PyStr(PyText(wind_dir)) ELSE E)
    ELSE IF 0 <= ToFloat(wind_dir).n /\ ToFloat(wind_dir).n <= 360
    THEN PyStr(NatToStr(ToFloat(wind_dir).n))
    ELSE PyStr(PyText(wind_dir))

format_wind_direction_nautical(wind_dir) ==
    IF wind_dir \in {None, E} THEN E
    ELSE IF ToFloat(wind_dir) = ValueError
    THEN (IF Truthy(wind_dir) THEN PyStr(PyText(wind_dir)) ELSE E)
    ELSE IF 0 <= ToFloat(wind_dir).n /\ ToFloat(wind_dir).n <= 360
    THEN PyStr(Pad(ToFloat(wind_dir).n, 3))
    ELSE PyStr(PyText(wind_dir))

parse_wind_direction_from_nautical(nautical_dir) ==
    IF nautical_dir \in {None, E} THEN E
    ELSE LET number == IF nautical_dir.k = "str" THEN ToInt(nautical_dir.s)
                       ELSE PyInt(nautical_dir.n)
         IN IF number = ValueError
            THEN (IF Truthy(nautical_dir) THEN PyStr(PyText(nautical_dir)) ELSE E)
            ELSE PyStr(IntToStr(number.n))

(* ---- deployment form: coordinates checked on submit ---- *)
\* float(chars) of typed text: an optional sign, digits with at most one point
\* and at least one digit, as the fraction num / den; else ValueError
DecimalOf(chars) ==
    LET signed == chars # <<>> /\ Head(chars) \in {"-", "+"}
        body == IF signed THEN Tail(chars) ELSE chars
        points == {i \in 1..Len(body) : body[i] = "."}
        at == IF points = {} THEN Len(body) + 1 ELSE CHOOSE i \in points : TRUE
        whole == SubSeq(body, 1, at - 1)
        frac == SubSeq(body, at + 1, Len(body))
        scale[i \in 0..Len(frac)] == IF i = 0 THEN 1 ELSE 10 * scale[i - 1]
        magnitude == ParseNat(whole) * scale[Len(frac)] + ParseNat(frac)
    IN IF /\ Cardinality(points) <= 1
          /\ whole \o frac # <<>>
          /\ \A part \in {whole, frac} : part = <<>> \/ IsDigits(part)
       THEN [num |-> IF signed /\ Head(chars) = "-" THEN 0 - magnitude ELSE magnitude,
             den |-> scale[Len(frac)]]
       ELSE ValueError

\* The coordinate in degrees as a fraction, or ValueError.  The pattern is
\* ^(\d+)\s+(\d+\.?\d*)\s*([NSEW])$ with IGNORECASE, on the stripped text.
parse_coordinate(coord_str) ==
    LET text == Strip(coord_str)
        direction == text[Len(text)]
        front == RStrip(SubSeq(text, 1, Len(text) - 1))
        blanks == {i \in 1..Len(front) : front[i] = " "}
        gap == CHOOSE i \in blanks : \A j \in blanks : i <= j
        degrees == SubSeq(front, 1, gap - 1)
        minutes == LStrip(SubSeq(front, gap + 1, Len(front)))
        m == DecimalOf(minutes)
        total == ParseNat(degrees) * 60 * m.den + m.num
    IN IF DecimalOf(text) # ValueError THEN DecimalOf(text)
       ELSE IF /\ text # <<>>
               /\ direction \in {"N", "S", "E", "W", "n", "s", "e", "w"}
               /\ blanks # {}
               /\ IsDigits(degrees)
               /\ minutes # <<>> /\ IsDigits(<<Head(minutes)>>)
               /\ m # ValueError
       THEN [num |-> IF direction \in {"S", "W", "s", "w"} THEN 0 - total ELSE total,
             den |-> 60 * m.den]
       ELSE ValueError

\* The check without its range test.
CoordinateParses(value, limit) ==
    ~Truthy(value) \/ parse_coordinate(value.s) # ValueError

\* lat_valid / long_valid: a field left empty is not checked
CoordinateValid(value, limit) ==
    IF ~Truthy(value) THEN TRUE
    ELSE LET c == parse_coordinate(value.s)
         IN /\ c # ValueError
            /\ (0 - limit) * c.den <= c.num
            /\ c.num <= limit * c.den

(* ---- serial numbers read back from the table ---- *)
\* recovery form
clean_serial_number(sn) ==
    IF sn \in {None, E} THEN E
    ELSE LET sn_str == PyText(sn)
             num == DecimalOf(Strip(sn_str))
         IN IF /\ \E i \in 1..Len(sn_str) : sn_str[i] = "."
               /\ num # ValueError
               /\ num.num % num.den = 0
            THEN PyStr(IF num.num < 0 THEN IntToStr(0 - ((0 - num.num) \div num.den))
                       ELSE IntToStr(num.num \div num.den))
            ELSE PyStr(sn_str)

\* repair form
clean_serial_number_repair(value) ==
    IF value \in {None, E} THEN E
    ELSE LET str_value == Strip(PyText(value))
             n == Len(str_value)
         IN IF n >= 2 /\ SubSeq(str_value, n - 1, n) = <<".", "0">>
            THEN PyStr(SubSeq(str_value, 1, n - 2))
            ELSE PyStr(str_value)

(* ---- recovery form: subsurface instruments and their addresses ---- *)
\* The test of the instrument family, on the text as typed.
IsSontekAsTyped(inst_type) ==
    LET text == IF Truthy(inst_type) THEN inst_type.s ELSE <<>>
        Contains(pattern) ==
            \E i \in 1..(Len(text) - Len(pattern) + 1) :
                SubSeq(text, i, i + Len(pattern) - 1) = pattern
    IN \/ Contains(<<"s", "o", "n", "t", "e", "k">>)
       \/ Contains(<<"s", "o", "n", "t", "e", "c", "k">>)

\* 'sontek' in inst_type_str.lower() or 'sonteck' in inst_type_str.lower()
IsSontek(inst_type) ==
    LET upper == <<"S", "O", "N", "T", "E", "C", "K">>
        lower == <<"s", "o", "n", "t", "e", "c", "k">>
        text == IF Truthy(inst_type) THEN inst_type.s ELSE <<>>
        lowered == [i \in 1..Len(text) |->
                       IF \E u \in 1..7 : upper[u] = text[i]
                       THEN lower[CHOOSE u \in 1..7 : upper[u] = text[i]]
                       ELSE text[i]]
        Contains(pattern) ==
            \E i \in 1..(Len(lowered) - Len(pattern) + 1) :
                SubSeq(lowered, i, i + Len(pattern) - 1) = pattern
    IN \/ Contains(<<"s", "o", "n", "t", "e", "k">>)
       \/ Contains(<<"s", "o", "n", "t", "e", "c", "k">>)

\* main: the rows of the form that hold data become the entries of
\* subsurface_instruments, position being the row index
RECURSIVE form_subsurface_instruments(_, _)
form_subsurface_instruments(rows, i) ==
    IF i > Len(rows) THEN <<>>
    ELSE LET row == rows[i]
             entry == [position |-> i - 1,
                       instrument_type |-> row.inst_type,
                       serial_number |-> row.sn,
                       address |-> IF IsSontek(row.inst_type) THEN E ELSE row.address]
         IN (IF Truthy(row.inst_type) \/ Truthy(row.sn) \/ Truthy(row.address)
             THEN <<entry>> ELSE <<>>)
            \o form_subsurface_instruments(rows, i + 1)

\* the writers: instrument_addresses holds the entries with an address
instrument_addresses(instruments) ==
    {[position |-> instruments[i].position, address |-> instruments[i].address] :
        i \in {j \in 1..Len(instruments) : Truthy(instruments[j].address)}}

\* the loader and the widgets' defaults: row i of the form is filled from the
\* i-th entry of the stored list, its address from instrument_addresses by
\* the entry's position; rows beyond the list are blank
default_subsurface_rows(instruments, addresses, n) ==
    [i \in 1..n |->
        IF i <= Len(instruments)
        THEN [inst_type |-> instruments[i].instrument_type,
              sn |-> clean_serial_number(instruments[i].serial_number),
              address |-> IF \E a \in addresses : a.position = instruments[i].position
                          THEN (CHOOSE a \in addresses :
                                   a.position = instruments[i].position).address
                          ELSE E]
        ELSE [inst_type |-> E, sn |-> E, address |-> E]]

(* ---- recovery form: the instrument_timing column of an update ---- *)
\* the list stored in instrument_timing when clock-error rows are submitted:
\* one entry per row, an HH:MM time completed to HH:MM:00 (of an entry's
\* members the position, the two times and the clock error are kept; a row
\* may hold nothing but the sensor's type)
timing_data(subsurface_clock_errors) ==
    LET Seconds(t) ==
            IF Truthy(t) /\ Cardinality({i \in 1..Len(t.s) : t.s[i] = ":"}) = 1
            THEN PyStr(t.s \o <<":", "0", "0">>)
            ELSE t
    IN [i \in 1..Len(subsurface_clock_errors) |->
           [position |-> subsurface_clock_errors[i].position,
            gmt_time |-> Seconds(subsurface_clock_errors[i].actual_time),
            instrument_time |-> Seconds(subsurface_clock_errors[i].inst_time),
            clock_error |-> subsurface_clock_errors[i].clock_error]]

(* ---- lenient read of the JSON columns ---- *)
\* values json.loads returns: the empty object, a list of n items
EmptyObject == [k |-> "dict", s |-> <<>>, n |-> 0]

\* json.loads(v): texts over braces, brackets, the digit 0 and the blank are
\* parsed (value := 0 | {} | [] | [value], blanks allowed between tokens);
\* bytes are decoded first, "\xff" standing for a byte that is not UTF-8;
\* any other type is a TypeError
RECURSIVE json_loads(_)
json_loads(v) ==
    LET Raise(exc) == [k |-> exc, s |-> <<>>, n |-> 0]
        NotBlank(c) == c # " "
        t == SelectSeq(v.s, NotBlank)
        inner == json_loads(PyStr(SubSeq(t, 2, Len(t) - 1)))
    IN CASE v.k = "bytes" ->
              IF \E i \in 1..Len(v.s) : v.s[i] = "\\xff"
              THEN Raise("UnicodeDecodeError")
              ELSE json_loads(PyStr(v.s))
         [] v.k = "str" ->
              IF t = <<"0">> THEN PyInt(0)
              ELSE IF t = <<"{", "}">> THEN EmptyObject
              ELSE IF t = <<"[", "]">> THEN [k |-> "list", s |-> <<>>, n |-> 0]
              ELSE IF Len(t) >= 3 /\ t[1] = "[" /\ t[Len(t)] = "]"
                      /\ inner.k \in {"int", "dict", "list"}
                   THEN [k |-> "list", s |-> <<>>, n |-> 1]
              ELSE Raise("JSONDecodeError")
         [] OTHER -> Raise("TypeError")

\* deployment form: json.loads(json_str) if json_str else {}, with
\* JSONDecodeError and TypeError caught
parse_json_field(json_str) ==
    IF ~Truthy(json_str) THEN EmptyObject
    ELSE IF json_loads(json_str).k \in {"JSONDecodeError", "TypeError"} THEN EmptyObject
    ELSE json_loads(json_str)

\* repair form: None and '' give {}, any exception of json.loads gives {}
parse_json_field_repair(json_str) ==
    IF json_str = None \/ json_str = E THEN EmptyObject
    ELSE IF json_loads(json_str).k \in {"JSONDecodeError", "TypeError", "UnicodeDecodeError"}
         THEN EmptyObject
    ELSE json_loads(json_str)

\* repair form, get_sensor_sn(data, key): data.get(key.lower(), {}) and, for
\* an object without the key, ''
get_sensor_sn(data) ==
    IF data.k = "dict" THEN E ELSE AttributeError

(* ---- drawn inputs ---- *)
PresenceArgs ==
    [fn : {"presence"}, site : {"rec", "dep", "repair"}, value : RawValues]

StageArgs ==
    [fn : {"stage"},
     form : {f \in [{"site", "mooringid", "fire_date"} -> {E, A, B}] :
                f["site"] # B /\ f["fire_date"] # B},
     available : SUBSET {"site", "mooring_id", "mooringid", "relfiredate"}]

\* condition_options of the "Condition" select boxes; None is the unset widget
condition_options ==
    {E, PyStr(<<"L", "o", "s", "t">>), PyStr(<<"D", "a", "m", "a", "g", "e", "d">>),
     PyStr(<<"F", "o", "u", "l", "e", "d">>)}

AllBlank == [old_sn |-> E, condition |-> E, new_sn |-> E]

\* One kind's three widgets are drawn, the other kinds are left blank.
EquipmentArgs ==
    {[fn |-> "equipment",
      inputs |-> [k \in EquipKinds |-> IF k = kind THEN w ELSE AllBlank]] :
        kind \in EquipKinds,
        w \in [old_sn : {PyStr(t) : t \in Texts},
               condition : {None} \cup condition_options,
               new_sn : {PyStr(t) : t \in Texts}]}

DeploymentKeys ==
    {Key("met", "atrh", "type"), Key("met", "atrh", "serial"),
     Key("spool", "1", "sn"), Key("spool", "1", "length"),
     Key("release", "1", "sn"), Key("release", "1", "type")}

DeploymentArgs ==
    [fn : {"deployment"},
     form : [DeploymentKeys -> {E, A}],
     sensors : {<<>>} \cup {<<s>> : s \in [{"type", "sn", "depth"} -> {E, A}]}]

\* Columns of repair_normalized that the migration reads or writes.
RepairCols ==
    {"id", "fishing_vandalism", "repair_fishing_vandalism", "buoy_condition",
     "buoy_details", "met_ship", "met_buoy"}
        \cup Range(met_ship_cols) \cup Range(met_buoy_cols)

\* The table and the live columns at a start of the application.  A table of
\* the old generation keeps every deprecated column, later ones lack some;
\* a column that is not live holds nothing.  Row 1 varies either in the
\* copied columns or in the Met Obs columns.
MigrateArgs ==
    LET Blank(id) == [c \in RepairCols |-> IF c = "id" THEN PyInt(id) ELSE None]
        HHMM == PyStr(<<"0", "7", ":", "3", "0">>)
        Stored == Json([date |-> A])
        Rows ==
            {[Blank(1) EXCEPT !["fishing_vandalism"] = fv,
                              !["repair_fishing_vandalism"] = rfv,
                              !["buoy_condition"] = bc,
                              !["buoy_details"] = bd] :
                fv \in {None, E, A}, rfv \in {None, E, B},
                bc \in {None, A}, bd \in {None, B}}
            \cup
            {[Blank(1) EXCEPT !["ship_date"] = sd,
                              !["ship_time"] = st,
                              !["ship_wind_dir"] = wd,
                              !["met_ship"] = ms,
                              !["buoy_wind_dir"] = bw,
                              !["met_buoy"] = mb] :
                sd \in {None, E, A}, st \in {None, HHMM, A},
                wd \in {None, A, PyStr(<<"7">>), PyFloat(0)}, ms \in {None, Stored},
                bw \in {None, PyInt(7)}, mb \in {None, Stored}}
        Tables ==
            {{r} \cup more :
                r \in Rows,
                more \in {{}, {[Blank(2) EXCEPT !["fishing_vandalism"] = A]}}}
        Schemas4 ==
            {RepairCols, RepairCols \ {"fishing_vandalism"}, RepairCols \ {"ship_rh"},
             RepairCols \ {"buoy_condition", "met_buoy"}}
    IN {a \in [fn : {"migrate"}, table : Tables, columns : Schemas4] :
           \A row \in a.table : \A c \in RepairCols \ a.columns : row[c] = None}

\* every text over an alphabet, up to a length
TextsOver(alphabet, maxlen) == UNION {[1..n -> alphabet] : n \in 0..maxlen}

\* what can be typed into the clock-error field
ClockArgs ==
    [fn : {"clock"},
     text : {PyStr(t) : t \in TextsOver({"-", "0", "1", "6", ":"}, MaxClockLen)}]

\* the actual and the instrument time of a clock check: HH:MM:SS texts around
\* midnight and mid-day, an empty field and a malformed one
TimeArgs ==
    LET Times == {PyStr(Pad(h, 2) \o <<":">> \o Pad(m, 2) \o <<":">> \o Pad(s, 2)) :
                     h \in {0, 12, 23}, m \in {0, 59}, s \in {0, 30}}
                 \cup {E, PyStr(<<"7">>)}
    IN [fn : {"clock_check"}, actual_time : Times, inst_time : Times]

\* a wind direction: every whole degree as a number and as typed text, values
\* out of range, and text that is no number
WindArgs ==
    [fn : {"wind"},
     value : {PyInt(d) : d \in (0 - 2)..362} \cup {PyFloat(d) : d \in {0, 9, 360, 361}}
                \cup {PyStr(IntToStr(d)) : d \in (0 - 2)..362}
                \cup {PyStr(t) : t \in TextsOver({"N", " ", "9"}, MaxStrLen)}
                \cup {None}]

\* The latitude and longitude fields of a submit.  Each drawn text comes with
\* what it denotes: kind "number" and the value in tenths of a minute of arc,
\* kind "malformed", or kind "blank".
SubmitArgs ==
    LET Half == <<".", "5">>
        Decimals ==
            {[text |-> PyStr(sign \o NatToStr(whole) \o frac), kind |-> "number",
              tenths |-> (IF sign = <<>> THEN 1 ELSE 0 - 1)
                            * (whole * 600 + (IF frac = <<>> THEN 0 ELSE 300))] :
                sign \in {<<>>, <<"-">>}, whole \in {0, 89, 90, 91, 180, 181},
                frac \in {<<>>, Half}}
        Minutes == {[text |-> <<"0">>, tenths |-> 0],
                    [text |-> <<"3", "0", ".", "5">>, tenths |-> 305]}
        DegMin ==
            {[text |-> PyStr(NatToStr(deg) \o <<" ">> \o m.text \o gap \o <<hemi>>),
              kind |-> "number",
              tenths |-> (IF hemi \in {"S", "W", "s"} THEN 0 - 1 ELSE 1)
                            * (deg * 600 + m.tenths)] :
                deg \in {0, 89, 90, 179, 180}, m \in Minutes,
                gap \in {<<>>, <<" ">>}, hemi \in {"N", "S", "E", "W", "s"}}
        Malformed ==
            {[text |-> PyStr(t), kind |-> "malformed", tenths |-> 0] :
                t \in {<<" ">>, <<"N">>, <<"4", "5", " ", "N">>, <<"4", "5", " ", "3", "0">>,
                       <<"4", "5", " ", "3", "0", " ", "X">>, <<"N", " ", "4", "5", " ", "3", "0">>,
                       <<"4", "5", ",", "5">>, <<"4", "5", " ", ".", "5", " ", "N">>,
                       <<"4", "5", "3", "0", "N">>, <<"-", "4", "5", " ", "3", "0", " ", "N">>,
                       <<"4", ".", "5", ".", "5">>, <<".">>}}
        Coordinates ==
            Decimals \cup DegMin \cup Malformed \cup {[text |-> E, kind |-> "blank", tenths |-> 0]}
    IN [fn : {"submit"}, lat : Coordinates, long : Coordinates,
        mode : {"Add New", "Search/Edit"}]

\* a serial number as stored: text, or a number of a REAL / INTEGER column
SerialArgs ==
    [fn : {"serial"},
     sn : {PyStr(t) : t \in TextsOver({"D", "0", "1", "."}, MaxSerialLen)}
             \cup {None, PyFloat(196), PyInt(196)}]

\* three rows of the subsurface table: type, serial number and address as typed
InstrumentArgs ==
    LET Types == {E, PyStr(<<"s", "o", "n", "t", "e", "k">>),
                  PyStr(<<"S", "o", "n", "T", "E", "K", " ", "1">>),
                  PyStr(<<"x", "S", "O", "N", "T", "E", "C", "K">>),
                  PyStr(<<"s", "o", "n", "t", "e">>), PyStr(<<"S", "B", "E">>)}
        Row == [inst_type : Types, sn : {E, A}, address : {E, PyStr(<<"5">>), PyStr(<<" ">>)}]
        Last == [inst_type : {E, PyStr(<<"S", "B", "E">>)}, sn : {E},
                 address : {E, PyStr(<<"5">>)}]
    IN [fn : {"instruments"},
        rows : {<<r1, r2, r3>> : r1 \in Row, r2 \in Row, r3 \in Last}]

\* what a JSON column of a row can hold: NULL, a text, a number, NaN (pandas'
\* reading of NULL in a numeric column) or a BLOB
JsonArgs ==
    [fn : {"json"},
     value : {PyStr(t) : t \in TextsOver({"{", "}", "[", "]", "0", " "}, MaxJsonLen)}
                \cup {[k |-> "bytes", s |-> t, n |-> 0] :
                         t \in TextsOver({"{", "}", "\\xff"}, 2)}
                \cup {None, NaN, PyInt(0), PyInt(5)}]

\* the table and its live columns when the repair application starts: any of
\* the columns added at start may still be missing
StartupArgs ==
    {a \in [fn : {"startup"},
            table : {m.table : m \in MigrateArgs},
            columns : {RepairCols \ missing :
                         missing \in SUBSET {"buoy_details", "repair_fishing_vandalism",
                                             "met_ship", "met_buoy"}}] :
        \A row \in a.table : \A c \in RepairCols \ a.columns : row[c] = None}

\* an update of a recovery record: the instrument_timing it holds (NULL, the
\* tube's entry alone or with a subsurface entry), the clock-error rows
\* submitted (none, one or two, at their row positions) and whether the
\* column is live
TimingArgs ==
    LET Tube == [position |-> PyStr(<<"t", "u", "b", "e">>),
                 gmt_time |-> E,
                 instrument_time |-> PyStr(<<"0", "7", ":", "3", "1", ":", "0", "0">>),
                 clock_error |-> PyInt(100)]
        Old == [position |-> PyInt(0), gmt_time |-> E, instrument_time |-> E,
                clock_error |-> PyInt(5)]
        Row(p) == [position : {PyInt(p)},
                   actual_time : {E, PyStr(<<"0", "7", ":", "3", "0">>),
                                  PyStr(<<"0", "7", ":", "3", "0", ":", "1", "5">>)},
                   inst_time : {E, PyStr(<<"0", "7", ":", "3", "1">>)},
                   clock_error : {E, PyInt(100)}]
    IN [fn : {"timing"},
        stored : {None, Json(<<Tube>>), Json(<<Tube, Old>>), Json(<<Old>>)},
        subsurface_clock_errors :
            {<<>>} \cup {<<r>> : r \in Row(0) \cup Row(1)}
                   \cup {<<r1, r2>> : r1 \in Row(0), r2 \in Row(1)},
        available_columns : {{"id"}, {"id", "instrument_timing"}}]

BuildArgs ==
    PresenceArgs \cup StageArgs \cup EquipmentArgs \cup DeploymentArgs \cup MigrateArgs
        \cup ClockArgs \cup TimeArgs \cup WindArgs \cup SubmitArgs \cup SerialArgs
        \cup InstrumentArgs \cup JsonArgs \cup StartupArgs \cup TimingArgs

(* ---- the builders as actions ---- *)
ApplyPresence ==
    /\ arg.fn = "presence"
    /\ out = NoArg
    /\ out' = [treated |-> Treats(arg.site, arg.value)]
    /\ UNCHANGED <<dbvars, arg>>

\* the mapping loops of update_recovery_data and save_recovery_data
StageRecovery ==
    /\ arg.fn = "stage"
    /\ out = NoArg
    /\ out' = [db_data |-> RecDbData(arg.form, arg.available),
               \* the fields the writer reports as not persisted: it keeps no
               \* such list, its result is the id (with date and mooring id)
               diagnostics |-> {}]
    /\ UNCHANGED <<dbvars, arg>>

\* the repair submit builds both equipment documents
BuildEquipment ==
    /\ arg.fn = "equipment"
    /\ out = NoArg
    /\ out' = [lost_equipment |-> lost_equipment_dict(arg.inputs),
               replacement_equipment |-> replacement_equipment_dict(arg.inputs)]
    /\ UNCHANGED <<dbvars, arg>>

\* the sub-documents of update_deployment_data and save_deployment_data
BuildDeployment ==
    /\ arg.fn = "deployment"
    /\ out = NoArg
    /\ out' = [met_sensors |-> met_sensors(arg.form),
               nylon_spools |-> nylon_spools(arg.form),
               acoustic_releases |-> acoustic_releases(arg.form),
               subsurface_sensors |-> subsurface_sensors(arg.sensors)]
    /\ UNCHANGED <<dbvars, arg>>

\* migrate_old_columns at process start, and once more
RunMigration ==
    /\ arg.fn = "migrate"
    /\ out = NoArg
    /\ out' = [once |-> migrate_old_columns(arg.table, arg.columns),
               twice |-> migrate_old_columns(
                             migrate_old_columns(arg.table, arg.columns), arg.columns),
               \* the migrated records as the form loads them
               defaults |-> {[id |-> q["id"],
                              met_ship |-> default_met(q["met_ship"]),
                              met_buoy |-> default_met(q["met_buoy"])] :
                                q \in migrate_old_columns(arg.table, arg.columns)}]
    /\ UNCHANGED <<dbvars, arg>>

\* the typed clock error is parsed for storage and formatted again for display
RoundTripClock ==
    /\ arg.fn = "clock"
    /\ out = NoArg
    /\ out' = [stored |-> parse_clock_error_from_mmss(arg.text),
               shown |-> format_clock_error_to_mmss(parse_clock_error_from_mmss(arg.text))]
    /\ UNCHANGED <<dbvars, arg>>

\* the submit of a new record computes the clock error from the two times
AutoCalculate ==
    /\ arg.fn = "clock_check"
    /\ out = NoArg
    /\ out' = [calculated_error |->
                  IF Truthy(arg.actual_time) /\ Truthy(arg.inst_time)
                  THEN calculate_clock_error(arg.actual_time, arg.inst_time)
                  ELSE E]
    /\ UNCHANGED <<dbvars, arg>>

\* a wind direction is formatted for display and parsed back on save
RoundTripWind ==
    /\ arg.fn = "wind"
    /\ out = NoArg
    /\ out' = [formatted |-> format_wind_direction_nautical(arg.value),
               parsed |-> parse_wind_direction_from_nautical(
                              format_wind_direction_nautical(arg.value))]
    /\ UNCHANGED <<dbvars, arg>>

\* the deployment submit, required fields filled: both coordinates are checked
\* and only then is a writer called
SubmitDeployment ==
    /\ arg.fn = "submit"
    /\ out = NoArg
    /\ LET lat_valid == CoordinateValid(arg.lat.text, 90)
           long_valid == CoordinateValid(arg.long.text, 180)
       IN out' = [lat_valid |-> lat_valid,
                  long_valid |-> long_valid,
                  called |-> IF ~(lat_valid /\ long_valid) THEN "none"
                             ELSE IF arg.mode = "Search/Edit" THEN "update_deployment_data"
                             ELSE "save_deployment_data"]
    /\ UNCHANGED <<dbvars, arg>>

\* a stored serial number is cleaned for display by either form
CleanSerial ==
    /\ arg.fn = "serial"
    /\ out = NoArg
    /\ out' = [rec |-> clean_serial_number(arg.sn),
               repair |-> clean_serial_number_repair(arg.sn)]
    /\ UNCHANGED <<dbvars, arg>>

\* the rows of a submit as the two documents the writers store
BuildInstruments ==
    /\ arg.fn = "instruments"
    /\ out = NoArg
    /\ LET instruments == form_subsurface_instruments(arg.rows, 1)
       IN out' = [subsurface_instruments |-> instruments,
                  instrument_addresses |-> instrument_addresses(instruments),
                  \* the record loaded again and submitted without edits
                  resaved |-> form_subsurface_instruments(
                                 default_subsurface_rows(instruments,
                                     instrument_addresses(instruments), Len(arg.rows)), 1)]
    /\ UNCHANGED <<dbvars, arg>>

\* a JSON column read by both forms, and the repair form's look-up in it
ReadJsonField ==
    /\ arg.fn = "json"
    /\ out = NoArg
    /\ LET data == parse_json_field_repair(arg.value)
       IN out' = [dep |-> parse_json_field(arg.value),
                  repair |-> data,
                  sn |-> get_sensor_sn(data)]
    /\ UNCHANGED <<dbvars, arg>>

\* main: ensure_columns_exist(), then migrate_old_columns(); second is the
\* ensure_columns_exist() of the next start
StartRepair ==
    /\ arg.fn = "startup"
    /\ out = NoArg
    /\ LET first == ensure_columns_exist(arg.columns)
       IN out' = [first |-> first,
                  second |-> ensure_columns_exist(first.columns),
                  table |-> migrate_old_columns(arg.table, first.columns)]
    /\ UNCHANGED <<dbvars, arg>>

\* update_recovery_data on the instrument_timing column: staged only when
\* rows are submitted and the column is live, and then written whole
UpdateTiming ==
    /\ arg.fn = "timing"
    /\ out = NoArg
    /\ out' = [instrument_timing |->
                  IF /\ arg.subsurface_clock_errors # <<>>
                     /\ "instrument_timing" \in arg.available_columns
                  THEN Json(timing_data(arg.subsurface_clock_errors))
                  ELSE arg.stored]
    /\ UNCHANGED <<dbvars, arg>>

InitBuild ==
    /\ app = "builders"
    /\ available_columns = {}
    /\ table = {}
    /\ pc = "idle"
    /\ op = NoOp
    /\ db_data = NoData
    /\ txn = NoTxn
    /\ result = NoResult
    /\ shadow = {}
    /\ conns = {}
    /\ readback = {}
    /\ arg \in BuildArgs
    /\ out = NoArg

NextBuild ==
    \/ ApplyPresence
    \/ StageRecovery
    \/ BuildEquipment
    \/ BuildDeployment
    \/ RunMigration
    \/ RoundTripClock
    \/ AutoCalculate
    \/ RoundTripWind
    \/ SubmitDeployment
    \/ CleanSerial
    \/ BuildInstruments
    \/ ReadJsonField
    \/ StartRepair
    \/ UpdateTiming

SpecBuild == InitBuild /\ [][NextBuild]_vars

(***************************************************************************)
(* Properties of the record writers.                                       *)
(***************************************************************************)
\* The operation in flight ran (or is about to run) an UPDATE statement.
RunsUpdate ==
    \/ op.name \in {"update_recovery_data", "update_deployment_data"}
    \/ op.name = "save_repair_update" /\ SaveRepairUpdates(TRUE, op.id)

\* C1: update_recovery_data and update_deployment_data, called with an id that
\* matches no row, never change the table and return a failure result.
C1_UpdateMissingIdFails ==
    (op.name \in {"update_recovery_data", "update_deployment_data"} /\ op.absent)
        => /\ table = shadow
           /\ pc = "done" => result.status = "fail"

C1_Witness ==
    /\ pc = "done"
    /\ op.name = "update_recovery_data"
    /\ op.absent
    /\ table # {}
    /\ result = Fail("not_found")

\* C2: save_repair in update mode with a record_id that matches no row returns
\* a failure result and leaves the table unchanged.
C2_SaveRepairMissingIdFails ==
    (pc = "done" /\ op.name = "save_repair_update" /\ Truthy(op.id) /\ op.absent)
        => (result.status = "fail" /\ table = shadow)

\* C3: an update reaches its commit only when the UPDATE statement affected
\* exactly one row.
C3_CommitOnlyWithOneRow ==
    (pc = "commit" /\ RunsUpdate) => RowCount(table, op.id) = 1

\* C4: a write operation that ends in failure leaves the persisted table as it
\* was before the operation.
C4_FailureLeavesTableUntouched ==
    (pc = "done" /\ op.name # "delete_repair" /\ result.status \in {"fail", "raised"})
        => table = shadow

\* C5: the confirmation values of a successful update are those of the row
\* read back on a fresh connection after the commit.
C5_ConfirmationIsReadBack ==
    (/\ pc = "done"
     /\ op.name \in {"update_recovery_data", "update_deployment_data"}
     /\ result.status = "ok")
        => /\ readback # {}
           /\ \A r \in readback :
                 /\ result.mooring = r["mooring_id"]
                 /\ result.date = r[DateCol(available_columns)]

\* C6: row ids are unique, and an update with id k leaves every row with
\* another id as it was and, when it succeeds, has written its write-set to
\* the row with id k.
C6_IdsUniqueAndUpdateTargetsOneRow ==
    /\ \A r1, r2 \in table : r1["id"] = r2["id"] => r1 = r2
    /\ RunsUpdate =>
          {r \in table : r["id"] # op.id} = {r \in shadow : r["id"] # op.id}
    /\ (RunsUpdate /\ pc = "done" /\ result.status = "ok") =>
          \A r \in table : r["id"] = op.id =>
             \A c \in DOMAIN db_data : r[c] = db_data[c]

C6_Witness ==
    /\ pc = "done"
    /\ RunsUpdate
    /\ result.status = "ok"
    /\ Cardinality(table) = 2
    /\ table # shadow

\* C20: the commit of a successful insert (save_recovery_data,
\* save_deployment_data, save_repair without an id) adds exactly one row to
\* the table and returns that row's id, which no row held before.
C20_InsertReturnsNewId ==
    [][(/\ pc = "commit"
        /\ op.name \in {"save_recovery_data", "save_deployment_data", "save_repair_insert"}
        /\ result'.status = "ok")
       => /\ table \subseteq table'
          /\ Cardinality(table' \ table) = 1
          /\ \A r \in table' \ table : r["id"] = result'.id
          /\ result'.id \notin Ids(table)]_vars

\* C21: a write operation never raises to its caller: whatever step a
\* database exception occurs at, the operation ends with a (success, result)
\* pair, and it reports success for an update only if the target row existed.
C21_WritersNeverRaise ==
    pc = "done" =>
        /\ result.status \in {"ok", "fail"}
        /\ (result.status = "ok" /\ RunsUpdate) => ~op.absent

\* C22: a successful update of a recovery or deployment record stages only
\* columns of logical fields that came with a present value, and every other
\* column of the target row keeps the value it had before the update.
C22_UpdateKeepsUnsuppliedColumns ==
    (/\ pc = "done"
     /\ op.name \in {"update_recovery_data", "update_deployment_data"}
     /\ result.status = "ok")
        => LET Candidates(f) ==
                   IF app = "rec" THEN Range(all_mappings[f])
                   ELSE IF f = "dep_date" THEN {"deployment_info"} ELSE {f}
               Supplied(c) ==
                   \E f \in DOMAIN op.form : Truthy(op.form[f]) /\ c \in Candidates(f)
           IN /\ \A c \in DOMAIN db_data : Supplied(c)
              /\ \A r \in table, s \in shadow :
                    (r["id"] = op.id /\ s["id"] = op.id) =>
                       \A c \in DOMAIN r : ~Supplied(c) => r[c] = s[c]

\* C26: when an operation has returned or raised, every connection it opened
\* is closed, the verification connection of update_recovery_data included.
C26_ConnectionsClosed ==
    pc \in {"done", "idle"} => conns = {}

\* C27: when another session has deleted the target row after the existence
\* check found it, the UPDATE step of update_recovery_data and
\* update_deployment_data ends the operation with a failure result, nothing
\* pending and the table as it was: no success, and the row is not recreated.
C27_VanishedRowFailsUpdate ==
    [][(/\ pc = "execute"
        /\ op.name \in {"update_recovery_data", "update_deployment_data"}
        /\ SelectById(table, op.id) = {}
        /\ pc' # "execute")
       => /\ pc' = "done"
          /\ result'.status = "fail"
          /\ ~txn'.open
          /\ table' = table]_vars

C27_Witness ==
    /\ pc = "done"
    /\ op.name \in {"update_recovery_data", "update_deployment_data"}
    /\ ~op.absent
    /\ result = Fail("no_rows_updated")
    /\ SelectById(table, op.id) = {}
    /\ table = shadow

\* C28: save_repair called with is_update = True leaves the number of rows
\* of repair_normalized as it was, whatever record_id it is given.
C28_UpdateModeNeverInserts ==
    (pc = "done" /\ op.name = "save_repair_update") =>
        Cardinality(table) = Cardinality(shadow)

(***************************************************************************)
(* Properties of the builders.                                             *)
(***************************************************************************)
\* C7: every writer treats a raw value as present exactly when it is not
\* None, not NaN and not an empty or whitespace-only string.
C7_PresenceRule ==
    (arg.fn = "presence" /\ out # NoArg)
        => out.treated = (IF Present(arg.value) THEN "present" ELSE "absent")

C9_EquipmentEntries ==
    (arg.fn = "equipment" /\ out # NoArg) =>
        \A kind \in EquipKinds :
           LET w == arg.inputs[kind]
               lost == out.lost_equipment
               repl == out.replacement_equipment
           IN /\ Present(w.old_sn) =>
                    /\ kind \in DOMAIN lost
                    /\ lost[kind].sn = PyStr(Strip(w.old_sn.s))
                    /\ lost[kind].lost = (IF Present(w.condition)
                                          THEN PyStr(Strip(w.condition.s))
                                          ELSE None)
              /\ Present(w.new_sn) =>
                    /\ kind \in DOMAIN repl
                    /\ repl[kind] = [sn |-> PyStr(Strip(w.new_sn.s))]
              /\ (~Present(w.old_sn) /\ ~Present(w.condition) /\ ~Present(w.new_sn))
                    => (kind \notin DOMAIN lost /\ kind \notin DOMAIN repl)

C9_Witness ==
    /\ arg.fn = "equipment"
    /\ out # NoArg
    /\ arg.inputs["tube"] = [old_sn |-> PyStr(<<"0", " ">>), condition |-> None,
                             new_sn |-> PyStr(<<"0", "0">>)]
    /\ out.lost_equipment = ("tube" :> [sn |-> PyStr(<<"0">>), lost |-> None])
    /\ out.replacement_equipment = ("tube" :> [sn |-> PyStr(<<"0", "0">>)])

\* C10: every entry of a deployment sub-document has at least one present
\* constituent field.
C10_NoEmptyEntries ==
    (arg.fn = "deployment" /\ out # NoArg) =>
        /\ \A doc \in {out.met_sensors, out.nylon_spools, out.acoustic_releases} :
              \A key \in DOMAIN doc :
                 \E fld \in DOMAIN doc[key] : Present(doc[key][fld])
        /\ \A i \in 1..Len(out.subsurface_sensors) :
              \E fld \in {"type", "sn", "depth"} : Present(out.subsurface_sensors[i][fld])

\* C23: a field with a present value and no candidate column in the live
\* table does not fail the write and is named in the diagnostic list the
\* writer hands to its caller.
C23_SkippedFieldsReported ==
    (arg.fn = "stage" /\ out # NoArg) =>
        \A f \in DOMAIN all_mappings :
           (/\ Truthy(arg.form[f])
            /\ Resolve(all_mappings[f], arg.available) = NoColumn)
              => /\ DOMAIN out.db_data # {}
                 /\ f \in out.diagnostics

(***************************************************************************)
(* Properties of the schema migrator.                                      *)
(***************************************************************************)
\* C11: running migrate_old_columns twice in succession leaves exactly the
\* table that running it once leaves.
C11_MigrationIdempotent ==
    (arg.fn = "migrate" /\ out # NoArg) => out.twice = out.once

C11_Witness ==
    /\ arg.fn = "migrate"
    /\ out # NoArg
    /\ out.once # arg.table
    /\ out.twice = out.once
    /\ \E q \in out.once : q["repair_fishing_vandalism"] = A
    /\ \E q \in out.once :
          q["met_ship"].k = "json" /\ "time" \in DOMAIN q["met_ship"].doc

\* C12: migrate_old_columns keeps the rows' ids, changes no deprecated column
\* and no current column that holds a non-NULL value; a current column it
\* writes was NULL in a row whose deprecated column(s) are not all NULL.
C12_MigrationOnlyFillsGaps ==
    LET CurrentCols == {"repair_fishing_vandalism", "buoy_details", "met_ship", "met_buoy"}
        DeprecatedOf(c) ==
            CASE c = "repair_fishing_vandalism" -> {"fishing_vandalism"}
              [] c = "buoy_details" -> {"buoy_condition"}
              [] c = "met_ship" -> Range(met_ship_cols)
              [] OTHER -> Range(met_buoy_cols)
    IN
    (arg.fn = "migrate" /\ out # NoArg) =>
        /\ {r["id"] : r \in out.once} = {r["id"] : r \in arg.table}
        /\ Cardinality(out.once) = Cardinality(arg.table)
        /\ \A r \in arg.table : \A q \in out.once :
              r["id"] = q["id"] =>
                 /\ \A c \in RepairCols \ CurrentCols : q[c] = r[c]
                 /\ \A c \in CurrentCols :
                       /\ r[c] # None => q[c] = r[c]
                       /\ q[c] # r[c] =>
                             (r[c] = None /\ \E d \in DeprecatedOf(c) : r[d] # None)

C12_Witness ==
    /\ arg.fn = "migrate"
    /\ out # NoArg
    /\ \E r \in arg.table : \E q \in out.once :
          /\ r["id"] = q["id"]
          /\ r["repair_fishing_vandalism"] = E
          /\ r["fishing_vandalism"] = A
          /\ r["buoy_details"] = None
          /\ r["buoy_condition"] = A
          /\ q["repair_fishing_vandalism"] = E
          /\ q["buoy_details"] = A

C29_MigratedMetIsShown ==
    (arg.fn = "migrate" /\ out # NoArg) =>
        \A r \in arg.table : \A d \in out.defaults :
           (/\ d.id = r["id"]
            /\ Range(met_ship_cols) \cup Range(met_buoy_cols) \cup {"met_ship", "met_buoy"}
                  \subseteq arg.columns) =>
              /\ (r["met_ship"] = None /\ Truthy(r["ship_time"]) /\ Len(r["ship_time"].s) = 5)
                    => d.met_ship[2] = r["ship_time"]
              /\ (r["met_ship"] = None /\ r["ship_wind_dir"] # None
                     /\ ToFloat(r["ship_wind_dir"]) # ValueError)
                    => ToFloat(d.met_ship[3]) = ToFloat(r["ship_wind_dir"])
              /\ (r["met_buoy"] = None /\ r["buoy_wind_dir"] # None
                     /\ ToFloat(r["buoy_wind_dir"]) # ValueError)
                    => ToFloat(d.met_buoy[3]) = ToFloat(r["buoy_wind_dir"])

(***************************************************************************)
(* Properties of the recovery form's converters.                           *)
(***************************************************************************)
\* C13: for every M:SS text x (an optional minus sign on a non-zero value,
\* minutes without leading zeros, a colon, seconds 00..59), parsing stores
\* sign * (minutes * 100 + seconds) and formatting what was stored gives x back.
C13_ClockErrorRoundTrip ==
    LET x == arg.text.s
        negative == x # <<>> /\ Head(x) = "-"
        body == IF negative THEN Tail(x) ELSE x
        mm == SubSeq(body, 1, Len(body) - 3)
        ss == SubSeq(body, Len(body) - 1, Len(body))
        ValidMSS ==
            /\ Len(body) >= 4
            /\ body[Len(body) - 2] = ":"
            /\ IsDigits(mm) /\ (Len(mm) > 1 => Head(mm) # "0")
            /\ IsDigits(ss) /\ ParseNat(ss) < 60
            /\ negative => ParseNat(mm) * 100 + ParseNat(ss) > 0
    IN (arg.fn = "clock" /\ out # NoArg /\ ValidMSS) =>
          /\ out.stored = PyStr(IntToStr((IF negative THEN 0 - 1 ELSE 1)
                                         * (ParseNat(mm) * 100 + ParseNat(ss))))
          /\ out.shown = arg.text

C13_Witness ==
    /\ arg.fn = "clock"
    /\ out # NoArg
    /\ arg.text = PyStr(<<"-", "1", ":", "0", "6">>)
    /\ out.stored = PyStr(<<"-", "1", "0", "6">>)
    /\ out.shown = arg.text

\* C14: with both times of day supplied, the calculated clock error is actual
\* minus instrument, wrapped by 24 hours when that is negative, as M:SS text.
C14_ClockErrorWraps ==
    (/\ arg.fn = "clock_check"
     /\ out # NoArg
     /\ SecondsOfDay(arg.actual_time.s) # ValueError
     /\ SecondsOfDay(arg.inst_time.s) # ValueError) =>
        LET diff == SecondsOfDay(arg.actual_time.s).n - SecondsOfDay(arg.inst_time.s).n
            wrapped == IF diff < 0 THEN diff + 86400 ELSE diff
        IN out.calculated_error =
              PyStr(NatToStr(wrapped \div 60) \o <<":">> \o Pad(wrapped % 60, 2))

C16_BadCoordinatesRejected ==
    LET Bad(c, limit) ==
            \/ c.kind = "malformed"
            \/ c.kind = "number" /\ (c.tenths > limit * 600 \/ c.tenths < 0 - limit * 600)
    IN (arg.fn = "submit" /\ out # NoArg) =>
          /\ Bad(arg.lat, 90) => ~out.lat_valid
          /\ Bad(arg.long, 180) => ~out.long_valid
          /\ (Bad(arg.lat, 90) \/ Bad(arg.long, 180)) => (out.called = "none" /\ table = shadow)

C16_Witness ==
    /\ arg.fn = "submit"
    /\ out # NoArg
    /\ arg.lat.text = PyStr(<<"9", "0", " ", "3", "0", ".", "5", " ", "N">>)
    /\ arg.long.text = PyStr(<<"1", "7", "9", " ", "3", "0", ".", "5", "W">>)
    /\ ~out.lat_valid
    /\ out.long_valid
    /\ out.called = "none"

(***************************************************************************)
(* Properties of the serial number cleaners.                               *)
(***************************************************************************)
\* C17: both clean_serial_number implementations return a serial of digits
\* followed by ".0" without the ".0", and return a serial that contains a
\* letter unchanged.
C17_CleanSerialNumber ==
    (arg.fn = "serial" /\ out # NoArg /\ arg.sn.k = "str") =>
        LET x == arg.sn.s
            n == Len(x)
        IN /\ (n >= 3 /\ SubSeq(x, n - 1, n) = <<".", "0">> /\ IsDigits(SubSeq(x, 1, n - 2))) =>
                 /\ out.rec = PyStr(SubSeq(x, 1, n - 2))
                 /\ out.repair = PyStr(SubSeq(x, 1, n - 2))
           /\ (\E i \in 1..n : x[i] = "D") =>
                 /\ out.rec = arg.sn
                 /\ out.repair = arg.sn

(***************************************************************************)
(* Properties of the recovery form's subsurface table.                     *)
(***************************************************************************)
\* C18: an entry of subsurface_instruments whose type names the Sontek
\* family, in any letter case and with the known misspelling, has an empty
\* address whatever was typed, and instrument_addresses has no entry for its
\* position.
C18_SontekHasNoAddress ==
    (arg.fn = "instruments" /\ out # NoArg) =>
        \A i \in 1..Len(arg.rows) :
           arg.rows[i].inst_type \in
                 {PyStr(<<"s", "o", "n", "t", "e", "k">>),
                  PyStr(<<"S", "o", "n", "T", "E", "K", " ", "1">>),
                  PyStr(<<"x", "S", "O", "N", "T", "E", "C", "K">>)} =>
              /\ \E j \in 1..Len(out.subsurface_instruments) :
                    out.subsurface_instruments[j].position = i - 1
              /\ \A j \in 1..Len(out.subsurface_instruments) :
                    out.subsurface_instruments[j].position = i - 1 =>
                       out.subsurface_instruments[j].address = E
              /\ \A a \in out.instrument_addresses : a.position # i - 1

C18_Witness ==
    /\ arg.fn = "instruments"
    /\ out # NoArg
    /\ arg.rows[1].inst_type = PyStr(<<"x", "S", "O", "N", "T", "E", "C", "K">>)
    /\ arg.rows[1].address = PyStr(<<"5">>)
    /\ arg.rows[2].inst_type = PyStr(<<"S", "B", "E">>)
    /\ arg.rows[2].address = PyStr(<<"5">>)
    /\ out.instrument_addresses = {[position |-> 1, address |-> PyStr(<<"5">>)]}

\* C25: a recovery record loaded and saved again without edits keeps every
\* subsurface instrument at the position it was saved with, empty rows
\* between filled ones included.
C25_PositionsSurviveReload ==
    (/\ arg.fn = "instruments"
     /\ out # NoArg
     /\ \E i, j \in 1..Len(out.subsurface_instruments) :
           out.subsurface_instruments[i].position + 1
              < out.subsurface_instruments[j].position) =>
        \A i \in 1..Len(out.subsurface_instruments) :
           \E j \in 1..Len(out.resaved) :
              /\ out.resaved[j].position = out.subsurface_instruments[i].position
              /\ out.resaved[j].instrument_type = out.subsurface_instruments[i].instrument_type
              /\ out.resaved[j].serial_number = out.subsurface_instruments[i].serial_number

\* C30: an update that submits at least one subsurface clock-error row keeps
\* the entry of instrument_timing whose position is 'tube'.
C30_TubeTimingPreserved ==
    (/\ arg.fn = "timing"
     /\ out # NoArg
     /\ arg.subsurface_clock_errors # <<>>
     /\ arg.stored # None) =>
        \A i \in 1..Len(arg.stored.doc) :
           arg.stored.doc[i].position = PyStr(<<"t", "u", "b", "e">>) =>
              /\ out.instrument_timing # None
              /\ \E j \in 1..Len(out.instrument_timing.doc) :
                    out.instrument_timing.doc[j] = arg.stored.doc[i]

(***************************************************************************)
(* Properties of the JSON column readers.                                  *)
(***************************************************************************)
\* C19: reading a JSON column never raises, neither in parse_json_field of
\* the deployment and repair forms nor in the repair form's look-up in the
\* value read, and a NULL, empty or malformed column value reads as the empty
\* object.
C19_LenientRead ==
    (arg.fn = "json" /\ out # NoArg) =>
        LET Exceptions == {"JSONDecodeError", "TypeError", "UnicodeDecodeError",
                       "AttributeError"}
        IN /\ out.dep.k \notin Exceptions
           /\ out.repair.k \notin Exceptions
           /\ out.sn.k \notin Exceptions
           /\ (\/ arg.value \in {None, E}
               \/ json_loads(arg.value).k \in Exceptions) =>
                 (out.dep = EmptyObject /\ out.repair = EmptyObject)

====
